---- MODULE Spec2Model ----
(***************************************************************************)
(* Comparator based wake-up from Hibernate (src/main.c).                   *)
(*                                                                         *)
(* One thread of control: main() initialises the board, the console, the   *)
(* comparator and the user LED, then polls the comparator for ever.  A     *)
(* HIGH reading toggles the LED; a LOW reading calls                       *)
(* lpcomp_enter_hibernate_mode(), which signals with the LED, releases the *)
(* console and commits to Hibernate.  The device leaves Hibernate through  *)
(* a reset, so the program starts again at main().                         *)
(*                                                                         *)
(* Every statement of main.c is one action; pc is the statement about to   *)
(* be executed.  The library calls are the environment: a call whose       *)
(* status main.c can see to fail draws its status from {TRUE, FALSE}.      *)
(* CY_ASSERT(0) stops the program ("Stop program execution", "CPU          *)
(* seizes").  cyhal_syspm_hibernate() either powers the device down (it    *)
(* does not come back to the call site) or returns a failure status.       *)
(*                                                                         *)
(* events is the history of the current run (since the last reset): one    *)
(* record per executed statement, with the LED level and the console state *)
(* right after it.                                                         *)
(***************************************************************************)
EXTENDS Integers, Sequences, FiniteSets, TLC

VARIABLES
    pc,                 \* statement about to be executed
    secure,             \* build: CY_DEVICE_SECURE defined
    target43012,        \* build: TARGET_APP_CY8CKIT_062S2_43012 defined
    compOut,            \* comparator channel 0 output (the analog input)
    led,                \* level of CYBSP_USER_LED
    console,            \* retarget-io (debug UART) is initialised
    compInit,           \* status of cyhal_comp_init in this run
    ledInit,            \* status of cyhal_gpio_init in this run
    status,             \* local 'status' of lpcomp_enter_hibernate_mode
    lpcomp_wakeup_src,  \* parameter of lpcomp_enter_hibernate_mode
    armedSrc,           \* wake source armed in the power-management hardware
    events,             \* history of this run
    reads,              \* comparator reads in this run
    boots               \* resets so far

vars == <<pc, secure, target43012, compOut, led, console, compInit, ledInit,
          status, lpcomp_wakeup_src, armedSrc, events, reads, boots>>

(* ------------------------------ bounds --------------------------------- *)
MaxReads == 3
MaxBoots == 2

(* ----------------------------- constants ------------------------------- *)
MY_LPCOMP_ULP_SETTLE == 50
MY_LPCOMP_OUTPUT_LOW == 0
MY_LPCOMP_OUTPUT_HIGH == 1
TOGGLE_LED_PERIOD == 500
LED_ON_DUR_BEFORE_HIB_IN_MS == 2000

CYBSP_LED_STATE_ON == "ON"
CYBSP_LED_STATE_OFF == "OFF"
CYHAL_SYSPM_HIBERNATE_LPCOMP0_HIGH == "LPCOMP0_HIGH"
WakeSources == {"LPCOMP0_LOW", "LPCOMP0_HIGH", "LPCOMP1_LOW", "LPCOMP1_HIGH",
                "RTC_ALARM", "WDT", "PINA_LOW", "PINA_HIGH"}
NoSource == "NONE"

(* status values of the power-management call *)
CY_SYSPM_SUCCESS == "SUCCESS"
CY_SYSPM_FAIL == "FAIL"
NoStatus == "UNSET"

(* ------------------------------ history -------------------------------- *)
\* One executed statement: what, its argument, its result, its duration in
\* ms (0 for none), and the LED level and console state right after it.
Ev(op, arg, res, ms, l, c) ==
    [op |-> op, arg |-> arg, res |-> res, ms |-> ms, led |-> l, con |-> c]

Res(ok) == IF ok THEN "ok" ELSE "fail"

HaltEv(l, c) == Ev("halt", "CY_ASSERT", "-", 0, l, c)

\* Variant: the assertion compiled to nothing.
CY_ASSERT_Skipped(cond, next) == next

\* CY_ASSERT(cond): continue at next when cond holds, stop otherwise.

CY_ASSERT(cond, next) == IF cond THEN next ELSE "halted"

\* cyhal_gpio_toggle: the opposite level.
Toggled(l) == IF l = CYBSP_LED_STATE_ON THEN CYBSP_LED_STATE_OFF ELSE CYBSP_LED_STATE_ON

\* Program entry: the first statement of main() for this build.
Entry == IF secure THEN "wdt_init" ELSE "bsp_init"

\* The level the comparator read returns for the present output.
CompLevel == IF compOut = "HIGH" THEN MY_LPCOMP_OUTPUT_HIGH ELSE MY_LPCOMP_OUTPUT_LOW

(* ------------------------------- Init ---------------------------------- *)
Init ==
    /\ secure \in BOOLEAN
    /\ target43012 \in BOOLEAN
    /\ compOut \in {"HIGH", "LOW"}
    /\ pc = Entry
    /\ led = CYBSP_LED_STATE_OFF
    /\ console = FALSE
    /\ compInit = "none"
    /\ ledInit = "none"
    /\ status = NoStatus
    /\ lpcomp_wakeup_src = NoSource
    /\ armedSrc = NoSource
    /\ events = <<>>
    /\ reads = 0
    /\ boots = 0

\* What every program statement leaves alone unless it says otherwise.
Frame(changed) ==
    /\ UNCHANGED <<secure, target43012, compOut, boots>>
    /\ IF "led" \in changed THEN TRUE ELSE UNCHANGED led
    /\ IF "console" \in changed THEN TRUE ELSE UNCHANGED console
    /\ IF "compInit" \in changed THEN TRUE ELSE UNCHANGED compInit
    /\ IF "ledInit" \in changed THEN TRUE ELSE UNCHANGED ledInit
    /\ IF "status" \in changed THEN TRUE ELSE UNCHANGED status
    /\ IF "src" \in changed THEN TRUE ELSE UNCHANGED lpcomp_wakeup_src
    /\ IF "armed" \in changed THEN TRUE ELSE UNCHANGED armedSrc
    /\ IF "reads" \in changed THEN TRUE ELSE UNCHANGED reads

\* A statement with no effect on the modelled state but its place in the run.
Step(from, to, op, arg, ms) ==
    /\ pc = from
    /\ pc' = to
    /\ events' = Append(events, Ev(op, arg, "-", ms, led, console))
    /\ Frame({})

(* --------------------------- main(): start-up --------------------------- *)
\* main.c 119-126, first half: cyhal_wdt_init and CY_ASSERT on its result.
WdtInit ==
    /\ pc = "wdt_init"
    /\ \E ok \in BOOLEAN :
        /\ pc' = CY_ASSERT(ok, "wdt_free")
        /\ events' = events \o <<Ev("wdt_init", "-", Res(ok), 0, led, console)>>
                            \o (IF CY_ASSERT(ok, "wdt_free") = "halted"
                                THEN <<HaltEv(led, console)>> ELSE <<>>)
    /\ Frame({})

\* main.c 125: cyhal_wdt_free.
WdtFree == Step("wdt_free", "bsp_init", "wdt_free", "-", 0)

\* Variant: the status of cybsp_init is not tested.
BspInit_Unchecked ==
    /\ pc = "bsp_init"
    /\ \E ok \in BOOLEAN :
        /\ pc' = "enable_irq"
        /\ events' = Append(events, Ev("bsp_init", "-", Res(ok), 0, led, console))
    /\ Frame({})

\* main.c 129-135: cybsp_init; a failure stops the program.
BspInit ==
    /\ pc = "bsp_init"
    /\ \E ok \in BOOLEAN :
        LET next == IF ok THEN "enable_irq" ELSE CY_ASSERT(FALSE, "enable_irq") IN
        /\ pc' = next
        /\ events' = events \o <<Ev("bsp_init", "-", Res(ok), 0, led, console)>>
                            \o (IF next = "halted" THEN <<HaltEv(led, console)>> ELSE <<>>)
    /\ Frame({})

\* main.c 138: __enable_irq.
EnableIrq == Step("enable_irq", "retarget_init", "enable_irq", "-", 0)

\* main.c 142-147: cy_retarget_io_init; a failure stops the program.
RetargetInit ==
    /\ pc = "retarget_init"
    /\ \E ok \in BOOLEAN :
        LET next == IF ok THEN "print_clear" ELSE CY_ASSERT(FALSE, "print_clear") IN
        /\ console' = ok
        /\ pc' = next
        /\ events' = events \o <<Ev("console_init", "main", Res(ok), 0, led, ok)>>
                            \o (IF next = "halted" THEN <<HaltEv(led, ok)>> ELSE <<>>)
    /\ Frame({"console"})

\* main.c 150: printf of the clear-screen sequence.
PrintClear == Step("print_clear", "print_banner", "print", "clear", 0)

\* main.c 153-155: printf of the title.
PrintBanner == Step("print_banner", "comp_init", "print", "banner", 0)

\* main.c 160: cyhal_comp_init; its status is not looked at.
CompInit ==
    /\ pc = "comp_init"
    /\ \E ok \in BOOLEAN :
        /\ compInit' = Res(ok)
        /\ events' = Append(events, Ev("comp_init", "-", Res(ok), 0, led, console))
    /\ pc' = "ulp_connect"
    /\ Frame({"compInit"})

\* main.c 163: Cy_LPComp_ConnectULPReference.
ConnectULPReference == Step("ulp_connect", "ulp_enable", "ulp_connect", "-", 0)

\* main.c 166: Cy_LPComp_UlpReferenceEnable.
UlpReferenceEnable == Step("ulp_enable", "comp_set_power", "ulp_enable", "-", 0)

\* main.c 169: cyhal_comp_set_power.
CompSetPower == Step("comp_set_power", "settle_delay", "comp_set_power", "LOW", 0)

\* main.c 172: cyhal_system_delay_us(MY_LPCOMP_ULP_SETTLE), under a millisecond.
SettleDelay ==
    Step("settle_delay", "gpio_init", "delay_us", "settle", MY_LPCOMP_ULP_SETTLE \div 1000)

\* main.c 175: cyhal_gpio_init with initial value CYBSP_LED_STATE_OFF; its
\* status is not looked at.  A failed call leaves the pin as it was.
GpioInit ==
    /\ pc = "gpio_init"
    /\ \E ok \in BOOLEAN :
        LET l == IF ok THEN CYBSP_LED_STATE_OFF ELSE led IN
        /\ ledInit' = Res(ok)
        /\ led' = l
        /\ events' = Append(events, Ev("gpio_init", "-", Res(ok), 0, l, console))
    /\ pc' = "comp_read"
    /\ Frame({"ledInit", "led"})

(* ------------------------ main(): the sensing loop ---------------------- *)
\* main.c 178-181, 190: cyhal_comp_read and the branch on its value.
CompRead ==
    /\ pc = "comp_read"
    /\ reads < MaxReads
    /\ reads' = reads + 1
    /\ pc' = IF MY_LPCOMP_OUTPUT_HIGH = CompLevel THEN "gpio_toggle" ELSE "call_hibernate"
    /\ events' = Append(events, Ev("read", compOut, "-", 0, led, console))
    /\ Frame({"reads"})

\* Variant: the LED is written on instead of toggled.
GpioToggle_SetOn ==
    /\ pc = "gpio_toggle"
    /\ led' = CYBSP_LED_STATE_ON
    /\ pc' = "toggle_delay"
    /\ events' = Append(events, Ev("toggle", "-", "-", 0, CYBSP_LED_STATE_ON, console))
    /\ Frame({"led"})

\* main.c 184: cyhal_gpio_toggle.
GpioToggle ==
    /\ pc = "gpio_toggle"
    /\ led' = Toggled(led)
    /\ pc' = "toggle_delay"
    /\ events' = Append(events, Ev("toggle", "-", "-", 0, Toggled(led), console))
    /\ Frame({"led"})

\* main.c 185: cyhal_system_delay_ms(TOGGLE_LED_PERIOD).
ToggleDelay == Step("toggle_delay", "print_normal", "delay", "-", TOGGLE_LED_PERIOD)

\* Variant: the loop starts above the comparator initialisation.
PrintNormal_Reinit == Step("print_normal", "comp_init", "print", "normal", 0)

\* main.c 186: printf of the status line, then back to the head of the loop.
PrintNormal == Step("print_normal", "comp_read", "print", "normal", 0)

\* Variant: the call names the opposite comparator level as wake source.
CallHibernate_WrongSource ==
    /\ pc = "call_hibernate"
    /\ lpcomp_wakeup_src' = "LPCOMP0_LOW"
    /\ pc' = "hib_led_on"
    /\ events' = Append(events, Ev("call", "lpcomp_enter_hibernate_mode", "-", 0, led, console))
    /\ Frame({"src"})

\* main.c 193: the call of lpcomp_enter_hibernate_mode with its argument.
CallHibernate ==
    /\ pc = "call_hibernate"
    /\ lpcomp_wakeup_src' = CYHAL_SYSPM_HIBERNATE_LPCOMP0_HIGH
    /\ pc' = "hib_led_on"
    /\ events' = Append(events, Ev("call", "lpcomp_enter_hibernate_mode", "-", 0, led, console))
    /\ Frame({"src"})

(* --------------------- lpcomp_enter_hibernate_mode ---------------------- *)
\* cyhal_gpio_write(CYBSP_USER_LED, level).
GpioWrite(from, to, level) ==
    /\ pc = from
    /\ led' = level
    /\ pc' = to
    /\ events' = Append(events, Ev("write", level, "-", 0, level, console))
    /\ Frame({"led"})

\* main.c 75: LED on.
HibLedOn == GpioWrite("hib_led_on", "hib_delay", CYBSP_LED_STATE_ON)

\* main.c 76: cyhal_system_delay_ms(LED_ON_DUR_BEFORE_HIB_IN_MS).
HibDelay == Step("hib_delay", "hib_led_off", "delay", "-", LED_ON_DUR_BEFORE_HIB_IN_MS)

\* Variant: the LED is left on before the commit.
HibLedOff_LeavesOn == GpioWrite("hib_led_off", "hib_print", CYBSP_LED_STATE_ON)

\* main.c 77: LED off.
HibLedOff == GpioWrite("hib_led_off", "hib_print", CYBSP_LED_STATE_OFF)

\* main.c 79: printf of the "De-initializing IO" notice.
HibPrint == Step("hib_print", "retarget_deinit", "print", "deinit", 0)

\* Variant: the console is not released before the commit.
RetargetDeinit_Skipped ==
    /\ pc = "retarget_deinit"
    /\ pc' = IF target43012 THEN "set_drivemode" ELSE "syspm_hibernate"
    /\ events' = events
    /\ Frame({})

\* main.c 82: cy_retarget_io_deinit; the next statement depends on the build
\* (main.c 85-87).
RetargetDeinit ==
    /\ pc = "retarget_deinit"
    /\ console' = FALSE
    /\ pc' = IF target43012 THEN "set_drivemode" ELSE "syspm_hibernate"
    /\ events' = Append(events, Ev("console_deinit", "-", "-", 0, led, FALSE))
    /\ Frame({"console"})

\* main.c 86: Cy_GPIO_SetDrivemode(GPIO_PRT5, 1, CY_GPIO_DM_HIGHZ).
SetDrivemode == Step("set_drivemode", "syspm_hibernate", "set_drivemode", "P5_1 HIGHZ", 0)

\* Variant: the call comes back to the caller with CY_SYSPM_SUCCESS.
SyspmHibernate_Returns ==
    /\ pc = "syspm_hibernate"
    /\ armedSrc' = lpcomp_wakeup_src
    /\ \E entered \in BOOLEAN :
        /\ status' = IF entered THEN CY_SYSPM_SUCCESS ELSE CY_SYSPM_FAIL
        /\ pc' = "hib_check"
        /\ events' = Append(events, Ev("hibernate", lpcomp_wakeup_src,
                                       IF entered THEN "entered" ELSE "fail", 0, led, console))
    /\ Frame({"status", "armed"})

\* main.c 90: cyhal_syspm_hibernate(lpcomp_wakeup_src).  The call arms the wake
\* source and either powers the device down, in which case it does not come
\* back, or comes back with a failure status.
SyspmHibernate ==
    /\ pc = "syspm_hibernate"
    /\ armedSrc' = lpcomp_wakeup_src
    /\ \E entered \in BOOLEAN :
        /\ status' = IF entered THEN status ELSE CY_SYSPM_FAIL
        /\ pc' = IF entered THEN "hibernating" ELSE "hib_check"
        /\ events' = Append(events, Ev("hibernate", lpcomp_wakeup_src,
                                       IF entered THEN "entered" ELSE "fail", 0, led, console))
    /\ Frame({"status", "armed"})

\* main.c 91, 98: the test of status; with CY_SYSPM_SUCCESS the function
\* returns to the loop of main().
HibCheck ==
    /\ pc = "hib_check"
    /\ pc' = IF status # CY_SYSPM_SUCCESS THEN "retarget_reinit" ELSE "comp_read"
    /\ events' = Append(events, Ev("check", status, "-", 0, led, console))
    /\ Frame({})

\* Variant: the console is not initialised again before the fatal message.
RetargetReinit_Missing ==
    /\ pc = "retarget_reinit"
    /\ pc' = "print_fatal"
    /\ events' = events
    /\ Frame({})

\* main.c 94: cy_retarget_io_init again, on the resources main.c 82 released.
RetargetReinit ==
    /\ pc = "retarget_reinit"
    /\ console' = TRUE
    /\ pc' = "print_fatal"
    /\ events' = Append(events, Ev("console_init", "lpcomp_enter_hibernate_mode", "ok", 0, led, TRUE))
    /\ Frame({"console"})

\* main.c 95: printf("Not entered Hibernate mode").
PrintFatal == Step("print_fatal", "hib_assert", "print", "fatal", 0)

\* main.c 96: CY_ASSERT(0); were it passed, the function would return to the loop.
HibAssert ==
    /\ pc = "hib_assert"
    /\ pc' = CY_ASSERT(FALSE, "comp_read")
    /\ events' = IF CY_ASSERT(FALSE, "comp_read") = "halted"
                 THEN Append(events, HaltEv(led, console)) ELSE events
    /\ Frame({})

(* ------------------------------ environment ----------------------------- *)
\* The analog input crosses the reference: the comparator output changes.
InputChange ==
    /\ compOut' = IF compOut = "HIGH" THEN "LOW" ELSE "HIGH"
    /\ UNCHANGED <<pc, secure, target43012, led, console, compInit, ledInit,
                   status, lpcomp_wakeup_src, armedSrc, events, reads, boots>>

\* The condition the armed wake source waits for.
WakeCondition ==
    \/ armedSrc = "LPCOMP0_HIGH" /\ compOut = "HIGH"
    \/ armedSrc = "LPCOMP0_LOW" /\ compOut = "LOW"

\* Wake from Hibernate (main.c 89, 192): a reset; the program runs again from
\* main() with nothing of the previous run left.
Wake ==
    /\ pc = "hibernating"
    /\ WakeCondition
    /\ boots < MaxBoots
    /\ boots' = boots + 1
    /\ pc' = Entry
    /\ led' = CYBSP_LED_STATE_OFF
    /\ console' = FALSE
    /\ compInit' = "none"
    /\ ledInit' = "none"
    /\ status' = NoStatus
    /\ lpcomp_wakeup_src' = NoSource
    /\ armedSrc' = NoSource
    /\ events' = <<>>
    /\ reads' = 0
    /\ UNCHANGED <<secure, target43012, compOut>>

Next ==
    \/ WdtInit \/ WdtFree \/ BspInit \/ EnableIrq \/ RetargetInit
    \/ PrintClear \/ PrintBanner \/ CompInit \/ ConnectULPReference
    \/ UlpReferenceEnable \/ CompSetPower \/ SettleDelay \/ GpioInit
    \/ CompRead \/ GpioToggle \/ ToggleDelay \/ PrintNormal \/ CallHibernate
    \/ HibLedOn \/ HibDelay \/ HibLedOff \/ HibPrint \/ RetargetDeinit
    \/ SetDrivemode \/ SyspmHibernate \/ HibCheck \/ RetargetReinit
    \/ PrintFatal \/ HibAssert \/ InputChange \/ Wake

Spec == Init /\ [][Next]_vars

TypeOK ==
    /\ led \in {CYBSP_LED_STATE_ON, CYBSP_LED_STATE_OFF}
    /\ console \in BOOLEAN
    /\ reads \in 0..MaxReads
    /\ boots \in 0..MaxBoots
    /\ lpcomp_wakeup_src \in WakeSources \cup {NoSource}
    /\ armedSrc \in WakeSources \cup {NoSource}
    /\ status \in {NoStatus, CY_SYSPM_SUCCESS, CY_SYSPM_FAIL}

(* ------------------------- reading the history -------------------------- *)
Idx == DOMAIN events

Count(op) == Cardinality({i \in Idx : events[i].op = op})

\* HIGH readings among the first n statements of the run.
NumHigh(n) == Cardinality({i \in 1..n : events[i].op = "read" /\ events[i].arg = "HIGH"})

LowIdx == {i \in Idx : events[i].op = "read" /\ events[i].arg = "LOW"}

Odd(n) == n % 2 = 1

Key(e) == <<e.op, e.arg, e.ms>>

\* The statements after position k that act on the LED, the clock, the
\* console, the comparator or the power mode.
Acts(k) ==
    SelectSeq(SubSeq(events, k + 1, Len(events)),
              LAMBDA e : e.op \in {"write", "toggle", "delay", "console_deinit",
                                   "console_init", "hibernate", "read", "halt",
                                   "comp_init", "gpio_init"})

SignalSequence ==
    << <<"write", CYBSP_LED_STATE_ON, 0>>,
       <<"delay", "-", LED_ON_DUR_BEFORE_HIB_IN_MS>>,
       <<"write", CYBSP_LED_STATE_OFF, 0>>,
       <<"console_deinit", "-", 0>>,
       <<"hibernate", CYHAL_SYSPM_HIBERNATE_LPCOMP0_HIGH, 0>> >>

InTransition ==
    pc \in {"call_hibernate", "hib_led_on", "hib_delay", "hib_led_off", "hib_print",
            "retarget_deinit", "set_drivemode", "syspm_hibernate", "hib_check",
            "retarget_reinit", "print_fatal", "hib_assert"}

InLoop == pc \in {"comp_read", "gpio_toggle", "toggle_delay", "print_normal"}

(* ------------------------------- claims --------------------------------- *)

\* C1: the first LOW reading of a run, after any number of HIGH readings, is
\* followed by LED on, a 2000 ms delay, LED off, console release and the
\* hibernate commit with wake source LPCOMP0_HIGH, in this order; the console
\* is released before every commit, and no commit names another source.
C1_SignalThenHibernate ==
    /\ \A k \in LowIdx :
        /\ \A j \in 1..(k - 1) : events[j].op = "read" => events[j].arg = "HIGH"
        /\ \A i \in 1..Len(Acts(k)) :
              i <= Len(SignalSequence) => Key(Acts(k)[i]) = SignalSequence[i]
        /\ pc \in {"hib_check", "hibernating", "retarget_reinit", "print_fatal",
                   "hib_assert", "halted"} => Len(Acts(k)) >= Len(SignalSequence)
    /\ \A i \in Idx : events[i].op = "hibernate" =>
        /\ events[i].arg = CYHAL_SYSPM_HIBERNATE_LPCOMP0_HIGH
        /\ ~events[i].con
        /\ \E j \in 1..(i - 1) : events[j].op = "console_deinit"
        /\ LowIdx # {}
    /\ pc = "hibernating" => armedSrc = CYHAL_SYSPM_HIBERNATE_LPCOMP0_HIGH

C1_Witness ==
    /\ pc = "hibernating"
    /\ NumHigh(Len(events)) >= 2
    /\ LowIdx # {}

C3_SuccessNeverReturns ==
    /\ [](\A i \in Idx : (events[i].op = "hibernate" /\ events[i].res = "entered") =>
              (i = Len(events) /\ pc = "hibernating"))
    /\ [](events # <<>> => events[1].op \in {"wdt_init", "bsp_init"})
    /\ [](\A i \in Idx : (events[i].op \in {"read", "toggle"}
                          \/ (events[i].op = "print" /\ events[i].arg = "normal")) =>
              \E j \in 1..(i - 1) : events[j].op = "print" /\ events[j].arg = "banner")
    /\ [][pc = "hibernating" =>
            \/ (pc' = "hibernating" /\ events' = events)
            \/ (pc' = Entry /\ events' = <<>> /\ boots' = boots + 1)]_vars

C3_Witness ==
    /\ boots >= 1
    /\ \E i \in Idx : events[i].op = "print" /\ events[i].arg = "banner"

\* C4: after a failed cybsp_init, and after a failed cy_retarget_io_init in
\* main(), the program is halted and the run holds no comparator
\* initialisation, comparator read, LED write or hibernate commit.
C4_EarlyInitFailureHalts ==
    \A i \in Idx :
        (/\ events[i].res = "fail"
         /\ \/ events[i].op = "bsp_init"
            \/ (events[i].op = "console_init" /\ events[i].arg = "main")) =>
        /\ pc = "halted"
        /\ Len(events) = i + 1
        /\ events[i + 1].op = "halt"
        /\ \A j \in Idx : events[j].op \notin {"comp_init", "gpio_init", "read", "toggle",
                                               "write", "hibernate"}
        /\ compInit = "none" /\ ledInit = "none" /\ reads = 0 /\ armedSrc = NoSource

C4_Witness ==
    /\ pc = "halted"
    /\ \E i \in Idx : events[i].op = "bsp_init" /\ events[i].res = "ok"
    /\ \E i \in Idx : events[i].op = "console_init" /\ events[i].res = "fail"

\* C5: every HIGH reading is followed by one toggle and then a 500 ms delay
\* before the next reading, and after n HIGH readings the LED is on exactly
\* when n is odd.
C5_ToggleOncePerHigh ==
    /\ \A i \in Idx : (events[i].op = "read" /\ events[i].arg = "HIGH") =>
        /\ i + 1 <= Len(events) => events[i + 1].op = "toggle"
        /\ i + 2 <= Len(events) => Key(events[i + 2]) = <<"delay", "-", TOGGLE_LED_PERIOD>>
        /\ \A j \in Idx : (j > i /\ events[j].op \in {"read", "toggle"}) =>
              (j = i + 1 \/ j > i + 2)
        /\ i = Len(events) => pc = "gpio_toggle"
        /\ i + 1 = Len(events) => pc = "toggle_delay"
    /\ \A i \in Idx : events[i].op = "toggle" =>
        /\ events[i - 1].op = "read" /\ events[i - 1].arg = "HIGH"
        /\ (events[i].led = CYBSP_LED_STATE_ON) <=> Odd(NumHigh(i))
    /\ pc = "comp_read" => ((led = CYBSP_LED_STATE_ON) <=> Odd(NumHigh(Len(events))))

C5_Witness ==
    /\ pc = "comp_read"
    /\ NumHigh(Len(events)) = 3
    /\ led = CYBSP_LED_STATE_ON

\* The program state a reset restores.
AtProgramEntry ==
    /\ pc = Entry
    /\ led = CYBSP_LED_STATE_OFF
    /\ ~console
    /\ compInit = "none" /\ ledInit = "none"
    /\ status = NoStatus
    /\ lpcomp_wakeup_src = NoSource /\ armedSrc = NoSource
    /\ events = <<>> /\ reads = 0

\* C6: while hibernating nothing of the program changes; the device leaves
\* Hibernate only with the comparator output HIGH, and then it is at program
\* entry in the state of a first start.
C6_WakeOnlyOnHigh ==
    [][pc = "hibernating" =>
         \/ UNCHANGED <<pc, led, console, compInit, ledInit, status,
                        lpcomp_wakeup_src, armedSrc, events, reads, boots>>
         \/ (compOut = "HIGH" /\ compOut' = "HIGH" /\ AtProgramEntry')]_vars

\* A second run has come back to Hibernate: the cycle has repeated.
C6_Witness ==
    /\ boots >= 1
    /\ pc = "hibernating"
    /\ compOut = "LOW"

\* C7: the sensing loop and the power-mode transition run only when every
\* start-up initialisation succeeded; any failed initialisation has halted
\* the program.
C7_EveryInitFailureHalts ==
    /\ (InLoop \/ InTransition \/ pc = "hibernating") => (compInit = "ok" /\ ledInit = "ok")
    /\ (\E i \in Idx : events[i].res = "fail"
                       /\ events[i].op \in {"wdt_init", "bsp_init", "console_init",
                                            "comp_init", "gpio_init"}
                       /\ events[i].arg # "lpcomp_enter_hibernate_mode")
         => pc = "halted"

\* C8: the LED level changes only in cyhal_gpio_toggle and in the two writes
\* of the pre-hibernate signal; it is off at every hibernate commit, while
\* hibernating, and in the halt that follows a failed commit.
C8_LedFrame ==
    /\ [][(ledInit # "none" /\ led' # led) =>
            pc \in {"gpio_toggle", "hib_led_on", "hib_led_off"}]_vars
    /\ [](\A i \in Idx : events[i].op = "hibernate" => events[i].led = CYBSP_LED_STATE_OFF)
    /\ []((pc \in {"retarget_deinit", "set_drivemode", "syspm_hibernate", "hib_check",
                   "retarget_reinit", "print_fatal", "hib_assert", "hibernating"}
           \/ (pc = "halted" /\ Count("hibernate") > 0))
          => led = CYBSP_LED_STATE_OFF)

C8_Witness ==
    /\ pc = "halted"
    /\ Count("hibernate") = 1
    /\ Count("toggle") = 1
    /\ led = CYBSP_LED_STATE_OFF

\* C9: in every run cyhal_comp_init and cyhal_gpio_init are each called once,
\* before the loop; every comparator read follows the comparator
\* initialisation and every LED toggle or write follows the pin initialisation.
C9_InitOnceBeforeLoop ==
    /\ Count("comp_init") <= 1
    /\ Count("gpio_init") <= 1
    /\ (InLoop \/ InTransition \/ pc = "hibernating") =>
          (Count("comp_init") = 1 /\ Count("gpio_init") = 1)
    /\ \A i \in Idx : events[i].op = "read" =>
          \E j \in 1..(i - 1) : events[j].op = "comp_init"
    /\ \A i \in Idx : events[i].op \in {"read", "toggle", "write"} =>
          \E j \in 1..(i - 1) : events[j].op = "gpio_init"
    /\ \A i \in Idx : events[i].op \in {"comp_init", "gpio_init"} =>
          \A j \in 1..(i - 1) : events[j].op \notin {"read", "toggle", "write", "hibernate"}

C9_Witness ==
    /\ boots >= 1
    /\ pc = "hibernating"
    /\ Count("read") = 3

====
